---- MODULE Spec2Model ----
\* Model of streamlit_app.py: a Streamlit dashboard over a CSV of marriage
\* statistics.  Every user interaction reruns the script: the dataset is
\* loaded (memoised), the selected page function runs, and what it renders
\* is recorded.  A DataFrame is a record
\*   [columns : sequence of column names, dtypes : column -> dtype,
\*    index : sequence of row labels, rows : sequence of (column -> cell)]
\* and a CSV file is [header : sequence of strings, lines : sequence of
\* sequences of strings].
EXTENDS Integers, Sequences, FiniteSets, TLC

\* ---------------------------------------------------------------- bounds
\* Largest number of rows of the dataset file.
MaxRows == 2
\* Largest value of a numeric cell (years are counted from 0).
MaxNum == 1

\* ------------------------------------------------------------ data model
\* A missing cell of an object column (pandas NaN).
NaN == "nan"

StartYear == "Data Collection (Start Year)"
EndYear == "Data Collection (End Year)"

CatColumns == <<"Country", "AgeGroup", "Sex", "MaritalStatus">>

Countries == {"A", "B"}
AgeGroups == {"20-29", "30-39"}
Sexes == {"M", "F"}
MaritalStatuses == {"Married", "Single"}

Range(s) == {s[i] : i \in DOMAIN s}

Max(a, b) == IF a >= b THEN a ELSE b

\* Integers that can appear in a file of the model, as cell or row label.
IntRange == 0 .. Max(MaxNum, MaxRows)

IsIntStr(s) == \E n \in IntRange : ToString(n) = s

ParseInt(s) == CHOOSE n \in IntRange : ToString(n) = s

\* ------------------------------------------------------------- DataFrame
\* Rows of df at the positions of the sequence kept, labels retained
\* (boolean-mask indexing, data[mask]).
Take(df, kept) ==
    [columns |-> df.columns,
     dtypes  |-> df.dtypes,
     index   |-> [k \in 1..Len(kept) |-> df.index[kept[k]]],
     rows    |-> [k \in 1..Len(kept) |-> df.rows[kept[k]]]]

Positions(df) == [i \in 1..Len(df.rows) |-> i]

\* Mutant of Mask: the row labels are renumbered from 0 (reset_index).
MaskReset(df, mask) ==
    LET kept == SelectSeq(Positions(df), LAMBDA i : mask[i])
    IN  [columns |-> df.columns,
         dtypes  |-> df.dtypes,
         index   |-> [k \in 1..Len(kept) |-> k - 1],
         rows    |-> [k \in 1..Len(kept) |-> df.rows[kept[k]]]]

\* data[mask]: the rows at which the boolean series mask is true, in
\* order.
Mask(df, mask) == Take(df, SelectSeq(Positions(df), LAMBDA i : mask[i]))

\* Mutant of unique: every value the column can take is offered.
uniqueDomain(df, col) ==
    IF col = "Country" THEN Countries
    ELSE IF col = "AgeGroup" THEN AgeGroups
    ELSE Sexes

\* data[col].unique(): the distinct values of the column (NaN included).
unique(df, col) == {df.rows[i][col] : i \in 1..Len(df.rows)}

\* data[data[col].isin(sel)]
isin(df, col, sel) == Mask(df, [i \in 1..Len(df.rows) |-> df.rows[i][col] \in sel])

\* Mutant of empty: only the number of rows is looked at.
emptyRows(df) == Len(df.rows) = 0

\* DataFrame.empty: some axis has length 0.
empty(df) == Len(df.columns) = 0 \/ Len(df.rows) = 0

\* The frame df cut down to the columns cols.
Restrict(df, cols) ==
    [columns |-> cols,
     dtypes  |-> [c \in Range(cols) |-> df.dtypes[c]],
     index   |-> df.index,
     rows    |-> [i \in 1..Len(df.rows) |-> [c \in Range(cols) |-> df.rows[i][c]]]]

\* data.select_dtypes(include=['number'])
select_dtypes_number(df) ==
    Restrict(df, SelectSeq(df.columns, LAMBDA c : df.dtypes[c] \in {"int64", "float64"}))

\* ------------------------------------------------------------------- CSV
\* pandas names a column with an empty header cell "Unnamed: <position>".
ColumnName(h, j) == IF h = "" THEN "Unnamed: " \o ToString(j - 1) ELSE h

\* pd.read_csv(file): header row to column names, a fresh RangeIndex, and
\* per column the inferred dtype: int64 when every cell is an integer,
\* float64 (all NaN) when every cell is empty, object otherwise, with the
\* empty cells read as NaN.
read_csv(csv) ==
    LET n     == Len(csv.lines)
        w     == Len(csv.header)
        cols  == [j \in 1..w |-> ColumnName(csv.header[j], j)]
        dtype == [j \in 1..w |->
                     IF n > 0 /\ \A i \in 1..n : IsIntStr(csv.lines[i][j])
                     THEN "int64"
                     ELSE IF n > 0 /\ \A i \in 1..n : csv.lines[i][j] = ""
                     THEN "float64"
                     ELSE "object"]
        pos   == [c \in Range(cols) |-> CHOOSE j \in 1..w : cols[j] = c]
    IN  [columns |-> cols,
         dtypes  |-> [c \in Range(cols) |-> dtype[pos[c]]],
         index   |-> [i \in 1..n |-> i - 1],
         rows    |-> [i \in 1..n |->
                         [c \in Range(cols) |->
                             LET t == csv.lines[i][pos[c]]
                             IN  IF dtype[pos[c]] = "int64" THEN ParseInt(t)
                                 ELSE IF t = "" THEN NaN ELSE t]]]

\* Text of one cell as to_csv writes it (na_rep = '').
CellStr(df, i, c) ==
    IF df.dtypes[c] = "int64" THEN ToString(df.rows[i][c])
    ELSE IF df.rows[i][c] = NaN THEN "" ELSE df.rows[i][c]

\* data.to_csv(): index=True by default, so the row label is written as
\* a first column whose header cell is empty.
to_csv(df) ==
    [header |-> <<"">> \o df.columns,
     lines  |-> [i \in 1..Len(df.rows) |->
                    <<ToString(df.index[i])>> \o
                    [j \in 1..Len(df.columns) |-> CellStr(df, i, df.columns[j])]]]

\* load_data() when st.cache_data holds no result: the file is parsed.
load_data(f) == read_csv(f)

\* ------------------------------------------------------------ statistics
RECURSIVE SumSeq(_)
SumSeq(s) == IF s = <<>> THEN 0 ELSE Head(s) + SumSeq(Tail(s))

RECURSIVE SumFun(_, _)
SumFun(f, S) ==
    IF S = {} THEN 0
    ELSE LET x == CHOOSE y \in S : TRUE IN f[x] + SumFun(f, S \ {x})

\* Sum of the counts of a table of counts.
Total(counts) == SumFun(counts, DOMAIN counts)

\* Number of rows of df whose cell in the column col is v.
Count(df, col, v) == Cardinality({i \in 1..Len(df.rows) : df.rows[i][col] = v})

\* Mutant of value_counts: missing values are a category (dropna=False).
value_counts_keepna(df, col) ==
    [v \in unique(df, col) |-> Count(df, col, v)]

\* data[col].value_counts(): rows per distinct value; dropna=True by
\* default, so a missing value is no category and is not counted.
value_counts(df, col) ==
    [v \in unique(df, col) \ {NaN} |-> Count(df, col, v)]

\* px.histogram(data, x='MaritalStatus', color='Sex', barmode='group'):
\* one trace per Sex, one bar per MaritalStatus; a row whose x is missing
\* falls in no bar.
histogram(df) ==
    [b \in {<<df.rows[i]["Sex"], df.rows[i]["MaritalStatus"]>> :
               i \in {k \in 1..Len(df.rows) : df.rows[k]["MaritalStatus"] # NaN}} |->
        Cardinality({i \in 1..Len(df.rows) :
                        /\ df.rows[i]["Sex"] = b[1]
                        /\ df.rows[i]["MaritalStatus"] = b[2]})]

RECURSIVE GCD(_, _)
GCD(a, b) == IF b = 0 THEN a ELSE GCD(b, a % b)

Column(df, c) == [i \in 1..Len(df.rows) |-> df.rows[i][c]]

\* n * (sum of x*y) - (sum of x) * (sum of y): n*n times the covariance.
Cross(xs, ys) ==
    Len(xs) * SumSeq([i \in 1..Len(xs) |-> xs[i] * ys[i]]) - SumSeq(xs) * SumSeq(ys)

\* A correlation coefficient r is held exactly as its sign and r*r as a
\* reduced fraction num/den; nan marks an undefined coefficient.
CorrNaN == [nan |-> TRUE, sgn |-> 0, num |-> 0, den |-> 1]
CorrOne == [nan |-> FALSE, sgn |-> 1, num |-> 1, den |-> 1]

Coefficient(sxy, sxx, syy) ==
    IF sxx * syy = 0 THEN CorrNaN
    ELSE LET g == GCD(sxy * sxy, sxx * syy)
         IN  [nan |-> FALSE,
              sgn |-> IF sxy > 0 THEN 1 ELSE IF sxy < 0 THEN -1 ELSE 0,
              num |-> (sxy * sxy) \div g,
              den |-> (sxx * syy) \div g]

\* Mutant of Pearson: the divisor uses the variance of x twice.
PearsonXX(xs, ys) == Coefficient(Cross(xs, ys), Cross(xs, xs), Cross(xs, xs))

\* Pearson correlation of two columns, as DataFrame.corr computes each
\* entry: covariance over the root of the product of the variances, NaN
\* when that divisor is 0 (a constant column, a single row).
Pearson(xs, ys) == Coefficient(Cross(xs, ys), Cross(xs, xs), Cross(ys, ys))

\* numeric_data.corr()
corr_matrix(df) ==
    [p \in Range(df.columns) \X Range(df.columns) |->
        Pearson(Column(df, p[1]), Column(df, p[2]))]

\* ----------------------------------------------------------------- pages
\* Mutant of filter_step: the selection is applied even when it is empty.
filter_always(df, col, sel) == isin(df, col, sel)

\* Mutant of filter_step: the Sex selection is not applied.
filter_step_noSex(df, col, sel) ==
    IF sel # {} /\ col # "Sex" THEN isin(df, col, sel) ELSE df

\* if sel: data = data[data[col].isin(sel)]
filter_step(df, col, sel) == IF sel # {} THEN isin(df, col, sel) ELSE df

dataset_overview_out == <<"overview.describe", "overview.info", "overview.distribution">>

data_visualizations_out == <<"visual.histogram", "visual.bar", "visual.pie">>

\* correlation_analysis(data): the matrix of its heatmap, <<>> when it
\* returns before computing one.
correlation_analysis_corr(df) ==
    LET numeric_data == select_dtypes_number(df)
    IN  IF empty(numeric_data) THEN <<>> ELSE <<corr_matrix(numeric_data)>>

\* correlation_analysis(data): what it renders.
correlation_analysis(df) ==
    LET numeric_data == select_dtypes_number(df)
    IN  IF empty(numeric_data)
        THEN <<"correlation.title", "correlation.no_numeric_data">>
        ELSE <<"correlation.title", "correlation.matrix", "scatter.title">> \o
             (IF Len(numeric_data.columns) >= 2
              THEN <<"scatter.plot">>
              ELSE <<"scatter.not_enough_columns">>)

missing_values_analysis_out == <<"missing.heatmap", "missing.statistics">>

\* data_quality_checks(data): what it renders.
data_quality_checks(df) ==
    LET numeric_data == select_dtypes_number(df)
    IN  <<"quality.missing", "quality.duplicates", "quality.dtypes", "outlier.title">> \o
        (IF empty(numeric_data)
         THEN <<"outlier.no_numeric_data">>
         ELSE [k \in 1..Len(numeric_data.columns) |-> "outlier.boxplot"] \o
              <<"outlier.summary">>)

\* data_exploration(): what it renders around the filtered frame fd.
data_exploration_out(fd) ==
    <<"exploration.title">> \o dataset_overview_out \o <<"filters">> \o
    data_visualizations_out \o correlation_analysis(fd) \o
    missing_values_analysis_out \o data_quality_checks(fd) \o <<"download">>

HasYears(d) == {StartYear, EndYear} \subseteq Range(d.columns)

\* visualizations(): the two charts by country and by age group, then the
\* year columns are looked up; a missing column raises KeyError there and
\* the rest of the page is not rendered.
visualizations_out(d) ==
    <<"visualizations.title", "visualizations.country", "visualizations.age_group">> \o
    (IF HasYears(d) THEN <<"visualizations.years">> ELSE <<"KeyError">>)

\* download_section(): the button is given the module's data.
download_section(d) == <<to_csv(d)>>

\* Mutant of module_data: the filtered frame is assigned to the global.
module_data_rebound(d, local) == IF local = <<>> THEN d ELSE local[1]

\* The module-level name data after a page function ran: the assignments
\* in interactive_filters rebind its parameter, the global is untouched.
module_data(d, local) == d

\* ----------------------------------------------------------------- state
VARIABLES
    file,          \* the CSV file load_data reads
    data,          \* the module-level DataFrame
    page,          \* the page chosen in the sidebar
    countries,     \* selections last made in the three filter widgets
    age_groups,
    sexes,
    filtered,      \* <<filtered_data>> of the run, <<>> if none
    distribution,  \* <<counts>> of the overview's bar chart, <<>> if none
    hist,          \* <<counts>> of the histogram of data_visualizations
    corr,          \* <<matrix>> of the heatmap, <<>> if none
    out,           \* what the run rendered, in order
    download       \* <<csv>> given to the download button, <<>> if none

vars == <<file, data, page, countries, age_groups, sexes, filtered,
          distribution, hist, corr, out, download>>

\* ------------------------------------------------------------- the files
NumCell == {ToString(n) : n \in 0..MaxNum}

\* Lines of files without numeric columns: the three filtered columns
\* vary, or the country and the marital status (possibly missing) do.
FilterLines ==
    {<<c, a, s, "Married">> : c \in Countries, a \in AgeGroups, s \in Sexes}
StatusLines ==
    {<<c, "20-29", "M", m>> : c \in Countries, m \in MaritalStatuses \cup {""}}

\* Lines of files with the start year (the country and the year vary), or
\* with the start and the end year (the years vary).
Num1Lines == {<<c, "20-29", "M", "Married", x>> : c \in Countries, x \in NumCell}
Num2Lines == {<<"A", "20-29", "M", "Married", x, y>> : x \in NumCell, y \in NumCell}

FilesOf(header, lines) ==
    {[header |-> header, lines |-> ls] :
        ls \in UNION {[1..n -> lines] : n \in 1..MaxRows}}

\* Files without numeric columns in which the filtered columns vary.
FilterFiles == FilesOf(CatColumns, FilterLines)

\* Files without numeric columns in which the marital status varies; some
\* line has one (a column without any value would be read as float64).
StatusFiles ==
    {f \in FilesOf(CatColumns, StatusLines) : \E i \in 1..Len(f.lines) : f.lines[i][4] # ""}

\* Files with no, one and two numeric columns.
NumFiles ==
    StatusFiles
    \cup FilesOf(CatColumns \o <<StartYear>>, Num1Lines)
    \cup FilesOf(CatColumns \o <<StartYear, EndYear>>, Num2Lines)

\* --------------------------------------------------------------- actions
home_out == <<"home.title", "home.welcome", "home.image", "home.about", "home.howto">>

NoViews ==
    /\ filtered' = <<>>
    /\ distribution' = <<>>
    /\ hist' = <<>>
    /\ corr' = <<>>

\* The first run of the script on the file f: the radio's default page is
\* Home.
FirstRun(f) ==
    /\ file = f
    /\ data = load_data(f)
    /\ page = "Home"
    /\ countries = {} /\ age_groups = {} /\ sexes = {}
    /\ filtered = <<>> /\ distribution = <<>> /\ hist = <<>> /\ corr = <<>>
    /\ out = home_out
    /\ download = <<>>

Init == \E f \in FilterFiles : FirstRun(f)

InitStatus == \E f \in StatusFiles : FirstRun(f)

InitNum == \E f \in NumFiles : FirstRun(f)

\* Every later interaction reruns the script; data = load_data() is then
\* answered by st.cache_data with the frame of the first run.
Home ==
    /\ page' = "Home"
    /\ data' = module_data(data, <<>>)
    /\ out' = home_out
    /\ NoViews
    /\ download' = <<>>
    /\ UNCHANGED <<file, countries, age_groups, sexes>>

\* data_exploration().  In interactive_filters the options of each
\* multiselect are the distinct values of the frame at that point, a
\* selection is a subset of the options, and each step filters the frame
\* the step before left.
DataExploration ==
    \E c \in SUBSET unique(data, "Country") :
      LET d1 == filter_step(data, "Country", c) IN
      \E a \in SUBSET unique(d1, "AgeGroup") :
        LET d2 == filter_step(d1, "AgeGroup", a) IN
        \E s \in SUBSET unique(d2, "Sex") :
            /\ page' = "Data Exploration"
            /\ countries' = c
            /\ age_groups' = a
            /\ sexes' = s
            /\ distribution' = <<value_counts(data, "MaritalStatus")>>
            /\ filtered' = <<filter_step(d2, "Sex", s)>>
            /\ hist' = <<histogram(filtered'[1])>>
            /\ corr' = correlation_analysis_corr(filtered'[1])
            /\ out' = data_exploration_out(filtered'[1])
            /\ download' = <<to_csv(filtered'[1])>>
            /\ data' = module_data(data, filtered')
            /\ UNCHANGED file

Visualizations ==
    /\ page' = "Visualizations"
    /\ data' = module_data(data, <<>>)
    /\ out' = visualizations_out(data)
    /\ NoViews
    /\ download' = <<>>
    /\ UNCHANGED <<file, countries, age_groups, sexes>>

Insights ==
    /\ page' = "Insights"
    /\ data' = module_data(data, <<>>)
    /\ out' = <<"insights.title", "insights.text">>
    /\ NoViews
    /\ download' = <<>>
    /\ UNCHANGED <<file, countries, age_groups, sexes>>

DownloadSection ==
    LET d == data
    IN  /\ page' = "Download"
        /\ data' = module_data(d, <<>>)
        /\ out' = <<"download.title", "download.text", "download">>
        /\ download' = download_section(d)
        /\ NoViews
            /\ UNCHANGED <<file, countries, age_groups, sexes>>

Next ==
    \/ Home
    \/ DataExploration
    \/ Visualizations
    \/ Insights
    \/ DownloadSection

\* The dashboard over the files in which the filtered columns vary.
Spec == Init /\ [][Next]_vars

\* The dashboard over the files in which the marital status varies.
SpecStatus == InitStatus /\ [][Next]_vars

\* The dashboard over the files with no, one and two numeric columns.
SpecNum == InitNum /\ [][Next]_vars

\* ------------------------------------------------------------ properties
Explored == page = "Data Exploration"

\* The row r satisfies the selection sel on the column col.
Allowed(r, col, sel) == sel = {} \/ r[col] \in sel

\* The row r satisfies the three current selections.
Selected(r) ==
    /\ Allowed(r, "Country", countries)
    /\ Allowed(r, "AgeGroup", age_groups)
    /\ Allowed(r, "Sex", sexes)

\* Labels of the rows of the dataset that satisfy the current selections.
SelectedLabels == {data.index[i] : i \in {j \in 1..Len(data.rows) : Selected(data.rows[j])}}

Labels(df) == {df.index[k] : k \in 1..Len(df.index)}

\* The row of the dataset with the label l.
DataRow(l) == data.rows[CHOOSE i \in 1..Len(data.rows) : data.index[i] = l]

\* C1: the frame interactive_filters returns holds only rows that satisfy
\* every non-empty selection, and it holds exactly the rows of the dataset
\* that do: none missing, none extra, none repeated, each unchanged.
C1_FilterExact ==
    Explored =>
        LET fd == filtered[1]
        IN  /\ \A k \in 1..Len(fd.rows) : Selected(fd.rows[k])
            /\ Labels(fd) = SelectedLabels
            /\ Len(fd.rows) = Cardinality(SelectedLabels)
            /\ \A k \in 1..Len(fd.rows) : fd.rows[k] = DataRow(fd.index[k])

\* Of a dataset with a row of country A and a row of country B, selecting
\* the country A alone leaves exactly the first row.
C1_Witness ==
    /\ Explored
    /\ countries = {"A"} /\ age_groups = {} /\ sexes = {}
    /\ Len(data.rows) = 2
    /\ data.rows[1]["Country"] = "A" /\ data.rows[2]["Country"] = "B"
    /\ filtered[1].index = <<0>>

\* C2: with the three selections empty interactive_filters returns the
\* whole dataset, and an empty selection on one column keeps every row
\* that the selections on the other two columns keep.
C2_EmptySelectionUnfiltered ==
    Explored =>
        /\ (countries = {} /\ age_groups = {} /\ sexes = {}) => filtered[1] = data
        /\ countries = {} =>
               \A i \in 1..Len(data.rows) :
                   (Allowed(data.rows[i], "AgeGroup", age_groups)
                    /\ Allowed(data.rows[i], "Sex", sexes))
                   => data.index[i] \in Labels(filtered[1])
        /\ age_groups = {} =>
               \A i \in 1..Len(data.rows) :
                   (Allowed(data.rows[i], "Country", countries)
                    /\ Allowed(data.rows[i], "Sex", sexes))
                   => data.index[i] \in Labels(filtered[1])
        /\ sexes = {} =>
               \A i \in 1..Len(data.rows) :
                   (Allowed(data.rows[i], "Country", countries)
                    /\ Allowed(data.rows[i], "AgeGroup", age_groups))
                   => data.index[i] \in Labels(filtered[1])

\* No selection on a dataset of two different rows: both are returned.
C2_Witness ==
    /\ Explored
    /\ countries = {} /\ age_groups = {} /\ sexes = {}
    /\ Len(data.rows) = 2
    /\ data.rows[1] # data.rows[2]
    /\ Len(filtered[1].rows) = 2

\* C3: the filtered frame is a row subset of the dataset: its columns are
\* the dataset's, its labels are labels of the dataset in the dataset's
\* order without repetition, and each row is the dataset's row of that
\* label.
C3_FilteredSubset ==
    filtered # <<>> =>
        LET fd == filtered[1]
        IN  /\ fd.columns = data.columns
            /\ Len(fd.index) = Len(fd.rows)
            /\ \A k \in 1..Len(fd.rows) :
                   /\ fd.index[k] \in Labels(data)
                   /\ fd.rows[k] = DataRow(fd.index[k])
            /\ \A k \in 1..Len(fd.rows), l \in 1..Len(fd.rows) :
                   k < l => fd.index[k] < fd.index[l]

\* A selection that keeps the second row of two and drops the first.
C3_Witness ==
    /\ Explored
    /\ Len(data.rows) = 2
    /\ data.rows[1] # data.rows[2]
    /\ filtered[1].index = <<1>>

\* C7: the module's dataset is the frame that was loaded from the file,
\* whatever pages were shown and whatever was selected before.
C7_DatasetImmutable == data = load_data(file)

\* The Home page shown after a selection that had narrowed the view: the
\* dataset still has its two rows.
C7_Witness ==
    /\ page = "Home"
    /\ countries = {"B"}
    /\ Len(data.rows) = 2
    /\ data.rows[1]["Country"] = "A"

\* C10: each selection is drawn from the values left by the filters
\* before it: the age groups from the rows of the selected countries, the
\* sexes from the rows of the selected countries and age groups; so the
\* filtered frame of a non-empty dataset has at least one row.
C10_CascadeNeverEmpty ==
    Explored =>
        /\ countries \subseteq {data.rows[i]["Country"] : i \in 1..Len(data.rows)}
        /\ age_groups \subseteq
               {data.rows[i]["AgeGroup"] :
                   i \in {j \in 1..Len(data.rows) :
                             Allowed(data.rows[j], "Country", countries)}}
        /\ sexes \subseteq
               {data.rows[i]["Sex"] :
                   i \in {j \in 1..Len(data.rows) :
                             /\ Allowed(data.rows[j], "Country", countries)
                             /\ Allowed(data.rows[j], "AgeGroup", age_groups)}}
        /\ Len(data.rows) > 0 => Len(filtered[1].rows) > 0

\* A selection on each of the three columns that drops a row.
C10_Witness ==
    /\ Explored
    /\ countries # {} /\ age_groups # {} /\ sexes # {}
    /\ Len(filtered[1].rows) > 0
    /\ Len(filtered[1].rows) < Len(data.rows)

\* Number of rows of df whose marital status is not missing.
WithStatus(df) ==
    Cardinality({i \in 1..Len(df.rows) : df.rows[i]["MaritalStatus"] # NaN})

\* C4 as stated: the counts of the marital-status distributions of the
\* Data Exploration page sum to the number of rows of the filtered frame.
C4_CountsSumToFilteredRows ==
    Explored =>
        /\ Total(distribution[1]) = Len(filtered[1].rows)
        /\ Total(hist[1]) = Len(filtered[1].rows)

\* C4, amended: the counts of the histogram of the filtered frame sum to
\* the number of its rows whose marital status is not missing, and the
\* counts of the overview's bar chart sum to the number of rows of the
\* whole dataset whose marital status is not missing, whatever is
\* selected.
C4_CountsSumToRowsWithStatus ==
    Explored =>
        /\ Total(hist[1]) = WithStatus(filtered[1])
        /\ Total(distribution[1]) = WithStatus(data)
        /\ NaN \notin DOMAIN distribution[1]

\* A selection that drops a row and keeps a row without marital status.
C4_Witness ==
    /\ Explored
    /\ Len(filtered[1].rows) < Len(data.rows)
    /\ WithStatus(filtered[1]) < Len(filtered[1].rows)
    /\ WithStatus(data) > 0

\* Labels written in the first cell of the lines of a CSV.
CsvLabels(csv) == {ParseInt(csv.lines[i][1]) : i \in 1..Len(csv.lines)}

\* C5 as stated: whenever a page offers the download, the rows of the
\* exported file are exactly the rows of the dataset that satisfy the
\* current selections.
C5_DownloadIsFilteredView ==
    download # <<>> =>
        /\ CsvLabels(download[1]) = SelectedLabels
        /\ Len(download[1].lines) = Cardinality(SelectedLabels)

\* The frame the download button of the current page was given.
Exported == IF Explored THEN filtered[1] ELSE data

\* C6 as stated: reading the exported file back with read_csv gives the
\* exported rows with the same columns and values, no column added or
\* lost.
C6_RoundTrip ==
    download # <<>> =>
        LET back == read_csv(download[1])
        IN  /\ back.columns = Exported.columns
            /\ Len(back.rows) = Len(Exported.rows)
            /\ \A i \in 1..Len(back.rows) :
                   \A c \in Range(Exported.columns) :
                       c \in DOMAIN back.rows[i] /\ back.rows[i][c] = Exported.rows[i][c]

\* Numeric columns of the filtered frame.
NumericColumns(df) == {c \in Range(df.columns) : df.dtypes[c] # "object"}

Rendered(tag) == tag \in Range(out)

\* C8: on a filtered frame without numeric columns the correlation and
\* the outlier analysis each report it and produce nothing else, while
\* the other stages and the download still run; with a single numeric
\* column the matrix is shown and the scatter plot is replaced by a
\* message.
C8_NumericGuards ==
    Explored =>
        /\ NumericColumns(filtered[1]) = {} =>
               /\ Rendered("correlation.no_numeric_data")
               /\ Rendered("outlier.no_numeric_data")
               /\ ~Rendered("correlation.matrix") /\ corr = <<>>
               /\ ~Rendered("scatter.plot")
               /\ ~Rendered("outlier.boxplot")
               /\ ~Rendered("outlier.summary")
               /\ Rendered("missing.heatmap") /\ Rendered("missing.statistics")
               /\ Rendered("quality.missing") /\ Rendered("quality.duplicates")
               /\ Rendered("quality.dtypes")
               /\ out[Len(out)] = "download" /\ download # <<>>
        /\ Cardinality(NumericColumns(filtered[1])) = 1 =>
               /\ Rendered("correlation.matrix") /\ corr # <<>>
               /\ Rendered("scatter.not_enough_columns")
               /\ ~Rendered("scatter.plot")
               /\ out[Len(out)] = "download" /\ download # <<>>

\* The Data Exploration page on a dataset without numeric columns.
C8_Witness ==
    /\ Explored
    /\ NumericColumns(filtered[1]) = {}
    /\ Len(filtered[1].rows) = 2
    /\ Rendered("correlation.no_numeric_data")
    /\ Rendered("outlier.no_numeric_data")

\* The column c takes one value only in the frame df.
Constant(df, c) ==
    \A i \in 1..Len(df.rows), j \in 1..Len(df.rows) : df.rows[i][c] = df.rows[j][c]

\* C9 as stated: the matrix is symmetric and its diagonal is 1.0 for
\* every numeric column, constant columns and single-row frames included.
C9_SymmetricUnitDiagonal ==
    corr # <<>> =>
        LET m == corr[1]
        IN  /\ \A p \in DOMAIN m : m[p] = m[<<p[2], p[1]>>]
            /\ \A c \in NumericColumns(filtered[1]) : m[<<c, c>>] = CorrOne

\* C9, amended: the matrix is symmetric (two mirrored entries are equal,
\* or both NaN); its diagonal is 1.0 for every numeric column that takes
\* at least two values in the filtered frame, and NaN, like the rest of
\* its row and column, for a column that is constant there.
C9_SymmetricDiagonalOfVaryingColumns ==
    corr # <<>> =>
        LET m  == corr[1]
            fd == filtered[1]
        IN  /\ DOMAIN m = NumericColumns(fd) \X NumericColumns(fd)
            /\ \A p \in DOMAIN m : m[p] = m[<<p[2], p[1]>>]
            /\ \A c \in NumericColumns(fd) :
                   IF Constant(fd, c)
                   THEN \A d \in NumericColumns(fd) : m[<<c, d>>] = CorrNaN
                   ELSE m[<<c, c>>] = CorrOne

\* A filtered frame with a constant and a varying numeric column.
C9_Witness ==
    /\ corr # <<>>
    /\ \E c \in NumericColumns(filtered[1]), d \in NumericColumns(filtered[1]) :
           /\ Constant(filtered[1], c) /\ corr[1][<<c, c>>] = CorrNaN
           /\ ~Constant(filtered[1], d) /\ corr[1][<<d, d>>] = CorrOne
====
